---- MODULE Spec2Model ----
(***************************************************************************)
(* Git Repo Visualiser: the analysis pipeline of advanced_app.py (clone    *)
(* the repository into a workspace, drive one Copilot session, tear down,  *)
(* clean up) and of app.py (the same pipeline without a workspace), with   *)
(* the Flask handler `analyze` that wraps both.                            *)
(*                                                                         *)
(* Strings the code takes apart (URLs, owner, repo, paths) are sequences   *)
(* of one-character strings; strings it only builds or compares are TLA+   *)
(* strings.                                                                *)
(***************************************************************************)
EXTENDS Integers, Sequences, FiniteSets, TLC

(***************************************************************************)
(* Bounds of the model.                                                    *)
(***************************************************************************)
\* events the engine emits to one session
MaxEvents == 3
\* handler threads of the server
NumWorkers == 2
\* events the engine emits to one session of the threaded server
MaxEventsThreaded == 1

(***************************************************************************)
(* Program constants.                                                      *)
(***************************************************************************)
\* safe_rmtree(path, retries=3)
retries == 3
\* repo[:20] in clone_repo
TruncLen == 20

Workers == 1..NumWorkers

None == "None"

(***************************************************************************)
(* Text helpers.                                                           *)
(***************************************************************************)
Whitespace == {" ", "\t", "\n", "\r"}

Slash == "/"

GithubPrefix == <<"g", "i", "t", "h", "u", "b", ".", "c", "o", "m", "/">>

DotGit == <<".", "g", "i", "t">>

\* s[from:] as a sequence (from is 1-based)
Tail_(s, from) == SubSeq(s, from, Len(s))

StartsAt(s, i, p) ==
    /\ i + Len(p) - 1 <= Len(s)
    /\ SubSeq(s, i, i + Len(p) - 1) = p

EndsWith(s, p) ==
    /\ Len(p) <= Len(s)
    /\ SubSeq(s, Len(s) - Len(p) + 1, Len(s)) = p

NoSlash(s) == \A i \in 1..Len(s) : s[i] # Slash

\* position of the first "/" of s, 0 when there is none
FirstSlash(s) ==
    IF NoSlash(s) THEN 0
    ELSE CHOOSE i \in 1..Len(s) :
            /\ s[i] = Slash
            /\ \A j \in 1..(i - 1) : s[j] # Slash

\* str.strip() with a defect: nothing is removed
strip_none(s) == s

\* str.strip(): leading and trailing whitespace removed
strip(s) ==
    LET keep == {i \in 1..Len(s) : s[i] \notin Whitespace}
    IN  IF keep = {} THEN <<>>
        ELSE LET lo == CHOOSE i \in keep : \A j \in keep : i <= j
                 hi == CHOOSE i \in keep : \A j \in keep : j <= i
             IN  SubSeq(s, lo, hi)

(***************************************************************************)
(* parse_github_url.                                                       *)
(*   patterns[0] = github\.com/([^/]+)/([^/]+?)(?:\.git)?/?$   (re.search) *)
(*   patterns[1] = ^([^/]+)/([^/]+)$                                       *)
(***************************************************************************)
NoMatch == [owner |-> None, repo |-> None]

\* ([^/]+?)(?:\.git)?/?$ against t: the lazy group takes the shortest
\* non-empty slash-free text that lets the rest reach the end of the string
MatchRepoTail(t) ==
    LET u == IF Len(t) > 0 /\ t[Len(t)] = Slash THEN SubSeq(t, 1, Len(t) - 1) ELSE t
    IN  IF Len(u) = 0 \/ ~NoSlash(u) THEN None
        ELSE IF EndsWith(u, DotGit) /\ Len(u) > Len(DotGit)
             THEN SubSeq(u, 1, Len(u) - Len(DotGit))
             ELSE u

\* patterns[0] anchored at position i of s
MatchFullAt(s, i) ==
    IF ~StartsAt(s, i, GithubPrefix) THEN NoMatch
    ELSE LET rest == Tail_(s, i + Len(GithubPrefix))
             k    == FirstSlash(rest)
         IN  IF k <= 1 THEN NoMatch
             ELSE LET r == MatchRepoTail(Tail_(rest, k + 1))
                  IN  IF r = None THEN NoMatch
                      ELSE [owner |-> SubSeq(rest, 1, k - 1), repo |-> r]

\* re.search(patterns[0], s): the leftmost position that matches
SearchFull(s) ==
    LET hits == {i \in 1..Len(s) : MatchFullAt(s, i) # NoMatch}
    IN  IF hits = {} THEN NoMatch
        ELSE MatchFullAt(s, CHOOSE i \in hits : \A j \in hits : i <= j)

\* re.search(patterns[1], s)
SearchShort(s) ==
    LET k == FirstSlash(s)
    IN  IF k <= 1 \/ k = Len(s) THEN NoMatch
        ELSE IF ~NoSlash(Tail_(s, k + 1)) THEN NoMatch
        ELSE [owner |-> SubSeq(s, 1, k - 1), repo |-> Tail_(s, k + 1)]

parse_github_url(url) ==
    LET s == strip(url)
    IN  IF SearchFull(s) # NoMatch THEN SearchFull(s) ELSE SearchShort(s)

\* repo[:20]
Truncate(s) == SubSeq(s, 1, IF Len(s) < TruncLen THEN Len(s) ELSE TruncLen)

(***************************************************************************)
(* Inputs: the repo_url values a request may carry.                        *)
(***************************************************************************)
UrlEmpty == <<>>

UrlGarbage == <<"n", "o", "p", "e">>

UrlFull ==
    <<"g", "i", "t", "h", "u", "b", ".", "c", "o", "m", "/", "o", "/", "r", ".", "g", "i", "t">>

\* not empty for `if not repo_url`, empty once parse_github_url has stripped it
UrlBlank == <<" ">>

Urls == {UrlEmpty, UrlBlank, UrlGarbage, UrlFull}

\* the workspace directories under TEMP_REPOS_DIR a request can name
Paths == {Truncate(parse_github_url(u).repo) : u \in {v \in Urls : parse_github_url(v) # NoMatch}}

(***************************************************************************)
(* Session events and the handler both programs register.                  *)
(***************************************************************************)
Event(t, content, name, id, res) ==
    [type |-> t, content |-> content, tool_name |-> name, tool_call_id |-> id, result |-> res]

EvMessageA == Event("assistant.message", "alpha", None, None, None)

EvMessageB == Event("assistant.message", "beta", None, None, None)

EvDelta == Event("assistant.message_delta", "chunk", None, None, None)

\* delta_content empty or missing: `event.data.delta_content or ""`
EvDeltaEmpty == Event("assistant.message_delta", "", None, None, None)

EvToolStart == Event("tool.execution_start", None, "list_dir", "call-1", None)

EvToolComplete == Event("tool.execution_complete", None, None, "call-1", "listing")

EvIdle == Event("session.idle", None, None, None, None)

Events == {EvMessageA, EvMessageB, EvDelta, EvDeltaEmpty, EvToolStart, EvToolComplete, EvIdle}

\* the dicts appended to events_log (keys a dict lacks are None)
LogRecord(t, content, name, id, res) ==
    [type |-> t, content |-> content, tool_name |-> name, tool_call_id |-> id, result |-> res]

\* the closure state of handle_event: response_content, events_log, done
Closure(rc, log, d) == [response_content |-> rc, events_log |-> log, done |-> d]

\* handle_event with a defect: nothing is recorded once done is set
handle_event_deaf(st, e) ==
    IF st.done THEN st
    ELSE IF e.type = "assistant.message"
    THEN [st EXCEPT !.response_content = Append(@, e.content)]
    ELSE IF e.type = "assistant.message_delta"
    THEN IF e.content # ""
         THEN [st EXCEPT !.events_log =
                  Append(@, LogRecord("message_delta", e.content, None, None, None))]
         ELSE st
    ELSE IF e.type = "tool.execution_start"
    THEN [st EXCEPT !.events_log =
             Append(@, LogRecord("tool_start", None, e.tool_name, e.tool_call_id, None))]
    ELSE IF e.type = "tool.execution_complete"
    THEN [st EXCEPT !.events_log =
             Append(@, LogRecord("tool_complete", None, None, e.tool_call_id, e.result))]
    ELSE IF e.type = "session.idle"
    THEN [st EXCEPT !.done = TRUE]
    ELSE st

handle_event(st, e) ==
    IF e.type = "assistant.message"
    THEN [st EXCEPT !.response_content = Append(@, e.content)]
    ELSE IF e.type = "assistant.message_delta"
    THEN IF e.content # ""
         THEN [st EXCEPT !.events_log =
                  Append(@, LogRecord("message_delta", e.content, None, None, None))]
         ELSE st
    ELSE IF e.type = "tool.execution_start"
    THEN [st EXCEPT !.events_log =
             Append(@, LogRecord("tool_start", None, e.tool_name, e.tool_call_id, None))]
    ELSE IF e.type = "tool.execution_complete"
    THEN [st EXCEPT !.events_log =
             Append(@, LogRecord("tool_complete", None, None, e.tool_call_id, e.result))]
    ELSE IF e.type = "session.idle"
    THEN [st EXCEPT !.done = TRUE]
    ELSE st

(***************************************************************************)
(* The filesystem under TEMP_REPOS_DIR.  A directory is absent or present; *)
(* a present one remembers the handler thread whose current run cloned it  *)
(* (owner 0: left over by a run that has ended).                           *)
(***************************************************************************)
Absent == [exists |-> FALSE, owner |-> 0]

Present(w) == [exists |-> TRUE, owner |-> w]

\* what the environment does to one removal attempt: the git gc call ends
\* with exit status 0, ends with another status, runs into its timeout or
\* cannot be launched; shutil.rmtree removes the tree or raises
GcOutcomes == {"ok", "nonzero", "timeout", "oserror"}

RmOutcomes == {"removed", "raises"}

AttemptOutcomes ==
    {o \in [gc : GcOutcomes, rm : RmOutcomes] : o.gc \in {"timeout", "oserror"} => o.rm = "raises"}

\* the removal attempts a pipeline run meets: one outcome of each kind that
\* safe_rmtree tells apart by its control flow
PipelineAttempts == {o \in AttemptOutcomes : o.gc \in {"ok", "timeout"}}

\* subprocess.run raises TimeoutExpired or OSError; a non-zero exit does not raise
GcRaises(o) == o.gc \in {"timeout", "oserror"}

\* what safe_rmtree did, in order: the operations it ran
NoOps == [attempts |-> 0, trace |-> <<>>]

\* `if os.path.exists(path)`, with a defect: the path is taken to be there
path_exists_assumed(dir) == TRUE

\* `if os.path.exists(path)`
path_exists(dir) == dir.exists

\* `if attempt < retries - 1: time.sleep(1)`, with a defect: it sleeps after
\* the last attempt too
sleeps_after_each(attempt) == TRUE

\* `if attempt < retries - 1: time.sleep(1)`
sleeps_after(attempt) == attempt < retries - 1

\* a result of safe_rmtree: the value returned, the directory afterwards, the
\* attempts made and the operations run (safe_rmtree has no raise of its own
\* and its `except Exception` takes what its calls raise)
Removal(ok, dir, attempts, trace) ==
    [ok |-> ok, raised |-> FALSE, dir |-> dir, attempts |-> attempts, trace |-> trace]

RECURSIVE rmtree_loop(_, _, _, _)
\* the for loop of safe_rmtree from `attempt` on; acc holds the operations
\* run so far
rmtree_loop(dir, outs, attempt, acc) ==
    IF attempt >= retries
    THEN Removal(FALSE, dir, attempt, acc.trace)
    ELSE IF ~path_exists(dir)
    THEN Removal(TRUE, dir, attempt + 1, Append(acc.trace, "exists"))
    ELSE LET o      == outs[attempt + 1]
             failed == GcRaises(o) \/ o.rm = "raises"
             ops    == <<"exists", "gc">>
                         \o (IF GcRaises(o) THEN <<>> ELSE <<"rmtree">>)
                         \o (IF failed /\ sleeps_after(attempt) THEN <<"sleep">> ELSE <<>>)
             acc1   == [attempts |-> attempt + 1, trace |-> acc.trace \o ops]
         IN  IF failed
             THEN rmtree_loop(dir, outs, attempt + 1, acc1)
             ELSE Removal(TRUE, Absent, attempt + 1, acc1.trace)

safe_rmtree(dir, outs) == rmtree_loop(dir, outs, 0, NoOps)

(***************************************************************************)
(* git clone and clone_repo.                                               *)
(***************************************************************************)
StderrCloning == "Cloning into 'temp_repos/r'..."

StderrCheckout == "warning: Clone succeeded, but checkout failed."

StderrFatal == "fatal: repository not found"

StderrExists == "fatal: destination path 'temp_repos/r' already exists and is not an empty directory."

\* "checkout failed" in result.stderr.lower()
CheckoutFailedIn(stderr) == stderr = StderrCheckout

\* what the remote and the network do to a clone into a free path; "hangs":
\* the git process never exits
CloneOutcomes == {"cloned", "checkout_failed", "failed", "hangs"}

\* the git clone of clone_repo: dir is the target before, w the cloning
\* thread.  subprocess.run is given no timeout, so it returns when the
\* process exits and not before (exits: whether it ever does)
git_clone(dir, c, w) ==
    IF dir.exists
    THEN [exits |-> TRUE, dir |-> dir, returncode |-> 128, stderr |-> StderrExists]
    ELSE IF c = "cloned"
    THEN [exits |-> TRUE, dir |-> Present(w), returncode |-> 0, stderr |-> StderrCloning]
    ELSE IF c = "checkout_failed"
    THEN [exits |-> TRUE, dir |-> Present(w), returncode |-> 128, stderr |-> StderrCheckout]
    ELSE IF c = "failed"
    THEN [exits |-> TRUE, dir |-> Absent, returncode |-> 128, stderr |-> StderrFatal]
    ELSE [exits |-> FALSE, dir |-> Present(w), returncode |-> 0, stderr |-> StderrCloning]

\* the test of clone_repo, with a defect: the exit status decides
clone_failed_by_status(dir, returncode) == returncode # 0

\* `if not os.path.exists(repo_path)`
clone_failed(dir, returncode) == ~dir.exists

CloneFailurePrefix == "Failed to clone repository: "

\* clone_repo on a target in state dir: the pre-clone removal, the clone, the
\* existence test and the restore (blocked: the call is still inside
\* subprocess.run, the fields after the clone are those of no return)
clone_repo(dir, outs, c, w) ==
    LET pre    == IF dir.exists THEN safe_rmtree(dir, outs)
                  ELSE Removal(TRUE, dir, 0, <<>>)
        cloned == git_clone(pre.dir, c, w)
        failed == clone_failed(cloned.dir, cloned.returncode)
    IN  [blocked  |-> ~cloned.exits,
         raised   |-> failed,
         message  |-> IF failed THEN CloneFailurePrefix \o cloned.stderr ELSE None,
         dir      |-> cloned.dir,
         result   |-> [returncode |-> cloned.returncode, stderr |-> cloned.stderr],
         removal  |-> [ran |-> dir.exists, ok |-> pre.ok, attempts |-> pre.attempts],
         commands |-> <<"git clone">> \o
                      (IF ~failed /\ CheckoutFailedIn(cloned.stderr)
                       THEN <<"git restore">> ELSE <<>>),
         restores |-> IF ~failed /\ CheckoutFailedIn(cloned.stderr) THEN 1 ELSE 0]

\* cleanup_repo(repo_path) on a target in state dir
cleanup_repo(repo_path, dir, outs) ==
    IF repo_path # None /\ dir.exists
    THEN safe_rmtree(dir, outs)
    ELSE Removal(TRUE, dir, 0, <<>>)

RECURSIVE JoinSpaced(_)
\* the join with a defect: a blank between the parts
JoinSpaced(parts) ==
    IF Len(parts) = 0 THEN ""
    ELSE IF Len(parts) = 1 THEN parts[1]
    ELSE parts[1] \o " " \o JoinSpaced(Tail(parts))

RECURSIVE Join(_)
\* "\n".join(parts)
Join(parts) ==
    IF Len(parts) = 0 THEN ""
    ELSE IF Len(parts) = 1 THEN parts[1]
    ELSE parts[1] \o "\n" \o Join(Tail(parts))

(***************************************************************************)
(* Responses of the Flask handler and exceptions in flight.                *)
(***************************************************************************)
InvalidUrlMessage == "Invalid GitHub URL. Please use format: https://github.com/owner/repo"

NoResponseText == "No response received."

UrlRequiredError == "Repository URL is required"

\* a response: its HTTP status, the keys of its JSON body and their values
\* (a key the body lacks is None); status 0 with kind "unhandled" is an
\* exception that left `analyze` without a JSON response
Response(kind, status, keys, response, events, o, r, error) ==
    [kind |-> kind, status |-> status, keys |-> keys, response |-> response,
     events |-> events, owner |-> o, repo |-> r, error |-> error]

NoResponse == Response("none", 0, {}, None, <<>>, None, None, None)

ErrorResponse(status, msg) == Response("json", status, {"error"}, None, <<>>, None, None, msg)

\* jsonify({"response": ..., "events": []}) of the two early returns
MessageResponse(msg) == Response("json", 200, {"response", "events"}, msg, <<>>, None, None, None)

ResultResponse(rc, log, o, r) ==
    Response("json", 200, {"response", "events", "owner", "repo"},
             IF Len(rc) > 0 THEN Join(rc) ELSE NoResponseText, log, o, r, None)

Unhandled(e) == Response("unhandled", 0, {}, None, <<>>, None, None, e.msg)

Exc(type, origin) == [type |-> type, msg |-> origin]

NoExc == Exc(None, None)

\* what an awaited SDK call can do
AwaitOutcomes == {"returns", "raises", "cancelled"}

ExcOf(outcome, origin) ==
    IF outcome = "raises" THEN Exc("Exception", origin \o " failed")
    ELSE Exc("CancelledError", origin \o " cancelled")

Programs == {"advanced_app", "app"}

(***************************************************************************)
(* State.                                                                  *)
(***************************************************************************)
VARIABLES
    program,            \* which of the two programs the server runs
    threaded,           \* whether the host serves requests concurrently
    fs,                 \* the directories under TEMP_REPOS_DIR
    pc,                 \* where each handler thread is
    repo_url,           \* analyze: data.get('repo_url', '')
    owner, repo,        \* analyze_github_repo: the parsed reference
    repo_path,          \* analyze_github_repo: the workspace, or None
    done,               \* asyncio.Event of the run
    response_content,   \* list of final-message fragments
    events_log,         \* list of event records
    handlers,           \* whether handle_event is registered with the session
    submitted,          \* whether the instruction was handed to session.send
    exc,                \* exception pending while the finally block runs
    resp,               \* the response of the request, once it has one
    received,           \* history: events delivered to handle_event, in order
    lost,               \* history: events delivered while no handler was registered
    calls,              \* history: calls the run made, in order
    raised,             \* history: calls of the run that raised, in order
    cloneRun,           \* history: what the clone_repo call that just ended did
    load,               \* the requests and events the server is exposed to
    call                \* a function called on its own: arguments and results

vars == <<program, threaded, fs, pc, repo_url, owner, repo, repo_path, done,
          response_content, events_log, handlers, submitted, exc, resp,
          received, lost, calls, raised, cloneRun, load, call>>

\* what no step of a request changes
hostVars == <<program, threaded, load, call>>

refVars == <<repo_url, owner, repo>>

closureVars == <<done, response_content, events_log>>

eventVars == <<received, lost>>

NoRun == [ran |-> FALSE, out |-> None]

Ran(out) == [ran |-> TRUE, out |-> out]

Free(w) == pc[w] \in {"idle", "responded"}

\* every repo_url and every event, MaxEvents events to a session
FullLoad == [urls |-> Urls, events |-> Events, maxEvents |-> MaxEvents]

NoCall == [fn |-> None]

InitHost(t, l) ==
    /\ program \in Programs
    /\ threaded = t
    /\ load = l
    /\ fs = [p \in Paths |-> Absent]
    /\ pc = [w \in Workers |-> "idle"]
    /\ repo_url = [w \in Workers |-> <<>>]
    /\ owner = [w \in Workers |-> None]
    /\ repo = [w \in Workers |-> None]
    /\ repo_path = [w \in Workers |-> None]
    /\ done = [w \in Workers |-> FALSE]
    /\ response_content = [w \in Workers |-> <<>>]
    /\ events_log = [w \in Workers |-> <<>>]
    /\ handlers = [w \in Workers |-> FALSE]
    /\ submitted = [w \in Workers |-> FALSE]
    /\ exc = [w \in Workers |-> NoExc]
    /\ resp = [w \in Workers |-> NoResponse]
    /\ received = [w \in Workers |-> <<>>]
    /\ lost = [w \in Workers |-> 0]
    /\ calls = [w \in Workers |-> <<>>]
    /\ raised = [w \in Workers |-> <<>>]
    /\ cloneRun = [w \in Workers |-> NoRun]

\* one request at a time
Init ==
    /\ InitHost(FALSE, FullLoad)
    /\ call = NoCall

(***************************************************************************)
(* Leaving the run.                                                        *)
(***************************************************************************)
Respond(w, r) ==
    /\ resp' = [resp EXCEPT ![w] = r]
    /\ pc' = [pc EXCEPT ![w] = "responded"]

\* an exception leaves analyze_github_repo: `except Exception` of analyze
\* answers 500; a CancelledError is no Exception and passes through
RaiseOut(w, e) ==
    IF e.type = "Exception"
    THEN Respond(w, ErrorResponse(500, e.msg))
    ELSE Respond(w, Unhandled(e))

Called(w, name) == calls' = [calls EXCEPT ![w] = Append(@, name)]

(***************************************************************************)
(* analyze: the request handler.                                           *)
(***************************************************************************)
Analyze(w) ==
    /\ Free(w)
    /\ \A v \in Workers : v < w => ~Free(v)
    /\ threaded \/ \A v \in Workers : Free(v)
    /\ \E url \in load.urls :
        /\ repo_url' = [repo_url EXCEPT ![w] = url]
        /\ IF url = <<>>
           THEN Respond(w, ErrorResponse(400, UrlRequiredError))
           ELSE /\ pc' = [pc EXCEPT ![w] = "parse"]
                /\ resp' = [resp EXCEPT ![w] = NoResponse]
    \* the locals of the new run; a workspace this thread's previous run left
    \* behind is owned by no run any more
    /\ fs' = [p \in Paths |-> IF fs[p].exists /\ fs[p].owner = w THEN Present(0) ELSE fs[p]]
    /\ owner' = [owner EXCEPT ![w] = None]
    /\ repo' = [repo EXCEPT ![w] = None]
    /\ repo_path' = [repo_path EXCEPT ![w] = None]
    /\ done' = [done EXCEPT ![w] = FALSE]
    /\ response_content' = [response_content EXCEPT ![w] = <<>>]
    /\ events_log' = [events_log EXCEPT ![w] = <<>>]
    /\ handlers' = [handlers EXCEPT ![w] = FALSE]
    /\ submitted' = [submitted EXCEPT ![w] = FALSE]
    /\ exc' = [exc EXCEPT ![w] = NoExc]
    /\ received' = [received EXCEPT ![w] = <<>>]
    /\ lost' = [lost EXCEPT ![w] = 0]
    /\ calls' = [calls EXCEPT ![w] = <<>>]
    /\ raised' = [raised EXCEPT ![w] = <<>>]
    /\ cloneRun' = [cloneRun EXCEPT ![w] = NoRun]
    /\ UNCHANGED hostVars

(***************************************************************************)
(* analyze_github_repo.                                                    *)
(***************************************************************************)
\* `if not owner or not repo`
NotParsed(p) == p.owner = None \/ p.owner = <<>> \/ p.repo = None \/ p.repo = <<>>

\* the parse with a defect: no early return for a reference it cannot parse
ParseUrlUnchecked(w) ==
    /\ pc[w] = "parse"
    /\ LET p == parse_github_url(repo_url[w])
       IN  /\ owner' = [owner EXCEPT ![w] = p.owner]
           /\ repo' = [repo EXCEPT ![w] = p.repo]
           /\ pc' = [pc EXCEPT ![w] = IF program = "advanced_app" THEN "clone" ELSE "start"]
    /\ UNCHANGED <<hostVars, fs, repo_url, repo_path, closureVars, handlers, submitted,
                   exc, resp, eventVars, calls, raised, cloneRun>>

\* owner, repo = parse_github_url(repo_url) and the early return
ParseUrl(w) ==
    /\ pc[w] = "parse"
    /\ LET p == parse_github_url(repo_url[w])
       IN  /\ owner' = [owner EXCEPT ![w] = p.owner]
           /\ repo' = [repo EXCEPT ![w] = p.repo]
           /\ IF NotParsed(p)
              THEN Respond(w, MessageResponse(InvalidUrlMessage))
              ELSE /\ pc' = [pc EXCEPT ![w] =
                               IF program = "advanced_app" THEN "clone" ELSE "start"]
                   /\ UNCHANGED resp
    /\ UNCHANGED <<hostVars, fs, repo_url, repo_path, closureVars, handlers, submitted,
                   exc, eventVars, calls, raised, cloneRun>>

\* the acquisition with a defect: a clone_repo that raised is called again
CloneRepoRetry(w) ==
    /\ pc[w] = "clone"
    /\ \E outs \in [1..retries -> PipelineAttempts], c \in CloneOutcomes :
        LET path == Truncate(repo[w])
            r    == clone_repo(fs[path], outs, c, w)
        IN  /\ fs' = [fs EXCEPT ![path] = r.dir]
            /\ cloneRun' = [cloneRun EXCEPT ![w] = IF r.blocked THEN NoRun ELSE Ran(r)]
            /\ IF r.blocked
               THEN /\ pc' = [pc EXCEPT ![w] = "blocked"]
                    /\ UNCHANGED <<resp, raised, repo_path>>
               ELSE IF r.raised
               THEN /\ raised' = [raised EXCEPT ![w] = Append(@, "clone_repo")]
                    /\ UNCHANGED <<pc, resp, repo_path>>
               ELSE /\ repo_path' = [repo_path EXCEPT ![w] = path]
                    /\ pc' = [pc EXCEPT ![w] = "start"]
                    /\ UNCHANGED <<resp, raised>>
    /\ Called(w, "clone_repo")
    /\ UNCHANGED <<hostVars, refVars, closureVars, handlers, submitted, exc, eventVars>>

\* repo_path = clone_repo(owner, repo), and the except branch around it
CloneRepo(w) ==
    /\ pc[w] = "clone"
    /\ \E outs \in [1..retries -> PipelineAttempts], c \in CloneOutcomes :
        LET path == Truncate(repo[w])
            r    == clone_repo(fs[path], outs, c, w)
        IN  /\ fs' = [fs EXCEPT ![path] = r.dir]
            /\ cloneRun' = [cloneRun EXCEPT ![w] = IF r.blocked THEN NoRun ELSE Ran(r)]
            /\ IF r.blocked
               THEN /\ pc' = [pc EXCEPT ![w] = "blocked"]
                    /\ UNCHANGED <<resp, raised, repo_path>>
               ELSE IF r.raised
               THEN /\ Respond(w, MessageResponse(CloneFailurePrefix \o r.message))
                    /\ raised' = [raised EXCEPT ![w] = Append(@, "clone_repo")]
                    /\ UNCHANGED repo_path
               ELSE /\ repo_path' = [repo_path EXCEPT ![w] = path]
                    /\ pc' = [pc EXCEPT ![w] = "start"]
                    /\ UNCHANGED <<resp, raised>>
    /\ Called(w, "clone_repo")
    /\ UNCHANGED <<hostVars, refVars, closureVars, handlers, submitted, exc, eventVars>>

\* an awaited SDK call outside the try: it returns, or its exception leaves
\* the function at once
AwaitCall(w, name, next) ==
    /\ Called(w, name)
    /\ \E o \in AwaitOutcomes :
        IF o = "returns"
        THEN /\ pc' = [pc EXCEPT ![w] = next]
             /\ UNCHANGED <<resp, raised>>
        ELSE /\ RaiseOut(w, ExcOf(o, name))
             /\ raised' = [raised EXCEPT ![w] = Append(@, name)]

\* client = CopilotClient(); await client.start()
ClientStart(w) ==
    /\ pc[w] = "start"
    /\ AwaitCall(w, "client.start", "create")
    \* the locals of clone_repo are gone
    /\ cloneRun' = [cloneRun EXCEPT ![w] = NoRun]
    /\ UNCHANGED <<hostVars, fs, refVars, repo_path, closureVars, handlers, submitted,
                   exc, eventVars>>

\* session = await client.create_session(...); done, response_content, events_log
CreateSession(w) ==
    /\ pc[w] = "create"
    /\ AwaitCall(w, "client.create_session", "on")
    /\ done' = [done EXCEPT ![w] = FALSE]
    /\ response_content' = [response_content EXCEPT ![w] = <<>>]
    /\ events_log' = [events_log EXCEPT ![w] = <<>>]
    /\ UNCHANGED <<hostVars, fs, refVars, repo_path, handlers, submitted, exc,
                   eventVars, cloneRun>>

\* session.on with a defect: the handler is not registered before the send
SessionOnLate(w) ==
    /\ pc[w] = "on"
    /\ pc' = [pc EXCEPT ![w] = "send"]
    /\ Called(w, "session.on")
    /\ UNCHANGED <<hostVars, fs, refVars, repo_path, closureVars, handlers, submitted,
                   exc, resp, eventVars, raised, cloneRun>>

\* session.on(handle_event)
SessionOn(w) ==
    /\ pc[w] = "on"
    /\ handlers' = [handlers EXCEPT ![w] = TRUE]
    /\ pc' = [pc EXCEPT ![w] = "send"]
    /\ Called(w, "session.on")
    /\ UNCHANGED <<hostVars, fs, refVars, repo_path, closureVars, submitted, exc, resp,
                   eventVars, raised, cloneRun>>

\* await session.send({"prompt": prompt}): the instruction goes out
SendBegin(w) ==
    /\ pc[w] = "send"
    /\ submitted' = [submitted EXCEPT ![w] = TRUE]
    /\ pc' = [pc EXCEPT ![w] = "sending"]
    /\ Called(w, "session.send")
    /\ UNCHANGED <<hostVars, fs, refVars, repo_path, closureVars, handlers, exc, resp,
                   eventVars, raised, cloneRun>>

\* how an exception leaves the body of send-and-wait: advanced_app enters its
\* finally block with the exception pending, app has no try
LeaveBody(w, e, name) ==
    /\ raised' = [raised EXCEPT ![w] = Append(@, name)]
    /\ IF program = "advanced_app"
       THEN /\ exc' = [exc EXCEPT ![w] = e]
            /\ pc' = [pc EXCEPT ![w] = "destroy"]
            /\ UNCHANGED resp
       ELSE /\ RaiseOut(w, e)
            /\ UNCHANGED exc

\* await session.send(...) ends
SendEnd(w) ==
    /\ pc[w] = "sending"
    /\ \E o \in AwaitOutcomes :
        IF o = "returns"
        THEN /\ pc' = [pc EXCEPT ![w] = "wait"]
             /\ UNCHANGED <<exc, resp, raised>>
        ELSE LeaveBody(w, ExcOf(o, "session.send"), "session.send")
    /\ UNCHANGED <<hostVars, fs, refVars, repo_path, closureVars, handlers, submitted,
                   eventVars, calls, cloneRun>>

\* the engine emits an event to the live session of w; the session passes it
\* to the registered handler
EngineEmit(w, e) ==
    /\ pc[w] \in {"sending", "wait", "destroy"}
    /\ submitted[w]
    /\ e \in load.events
    /\ Len(received[w]) + lost[w] < load.maxEvents
    /\ IF handlers[w]
       THEN LET st == handle_event(
                        Closure(response_content[w], events_log[w], done[w]), e)
            IN  /\ response_content' = [response_content EXCEPT ![w] = st.response_content]
                /\ events_log' = [events_log EXCEPT ![w] = st.events_log]
                /\ done' = [done EXCEPT ![w] = st.done]
                /\ received' = [received EXCEPT ![w] = Append(@, e)]
                /\ UNCHANGED lost
       ELSE /\ lost' = [lost EXCEPT ![w] = @ + 1]
            /\ UNCHANGED <<closureVars, received>>
    /\ UNCHANGED <<hostVars, fs, pc, refVars, repo_path, handlers, submitted, exc, resp,
                   calls, raised, cloneRun>>

\* done.wait() with a defect: it returns whether or not the event is set
DoneWaitEager(w) ==
    /\ pc[w] = "wait"
    /\ pc' = [pc EXCEPT ![w] = "destroy"]
    /\ UNCHANGED <<hostVars, fs, refVars, repo_path, closureVars, handlers, submitted,
                   exc, resp, eventVars, calls, raised, cloneRun>>

\* await done.wait() returns once the event is set
DoneWait(w) ==
    /\ pc[w] = "wait"
    /\ done[w]
    /\ pc' = [pc EXCEPT ![w] = "destroy"]
    /\ UNCHANGED <<hostVars, fs, refVars, repo_path, closureVars, handlers, submitted,
                   exc, resp, eventVars, calls, raised, cloneRun>>

\* await done.wait() is cancelled
WaitCancelled(w) ==
    /\ pc[w] = "wait"
    /\ LeaveBody(w, ExcOf("cancelled", "done.wait"), "done.wait")
    /\ UNCHANGED <<hostVars, fs, refVars, repo_path, closureVars, handlers, submitted,
                   eventVars, calls, cloneRun>>

\* await session.destroy(): the session is gone afterwards; an exception of
\* destroy replaces the pending one and leaves the function
SessionDestroy(w) ==
    /\ pc[w] = "destroy"
    /\ AwaitCall(w, "session.destroy", "stop")
    /\ handlers' = [handlers EXCEPT ![w] = FALSE]
    /\ UNCHANGED <<hostVars, fs, refVars, repo_path, closureVars, submitted, exc,
                   eventVars, cloneRun>>

\* await client.stop()
ClientStop(w) ==
    /\ pc[w] = "stop"
    /\ AwaitCall(w, "client.stop", IF program = "advanced_app" THEN "cleanup" ELSE "return")
    /\ UNCHANGED <<hostVars, fs, refVars, repo_path, closureVars, handlers, submitted,
                   exc, eventVars, cloneRun>>

\* cleanup_repo(repo_path), the last statement of the finally block
CleanupRepo(w) ==
    /\ pc[w] = "cleanup"
    /\ \E outs \in [1..retries -> PipelineAttempts] :
        LET r == cleanup_repo(repo_path[w], fs[repo_path[w]], outs)
        IN  fs' = [fs EXCEPT ![repo_path[w]] = r.dir]
    /\ pc' = [pc EXCEPT ![w] = "return"]
    /\ Called(w, "cleanup_repo")
    /\ UNCHANGED <<hostVars, refVars, repo_path, closureVars, handlers, submitted, exc,
                   resp, eventVars, raised, cloneRun>>

\* the end of analyze_github_repo: the pending exception goes on, or the
\* result is returned and analyze answers jsonify(result)
Return(w) ==
    /\ pc[w] = "return"
    /\ IF exc[w] # NoExc
       THEN RaiseOut(w, exc[w])
       ELSE Respond(w, ResultResponse(response_content[w], events_log[w], owner[w], repo[w]))
    /\ UNCHANGED <<hostVars, fs, refVars, repo_path, closureVars, handlers, submitted,
                   exc, eventVars, calls, raised, cloneRun>>

\* the steps of handler thread w
Step(w) ==
    \/ Analyze(w)
    \/ ParseUrl(w)
    \/ CloneRepo(w)
    \/ ClientStart(w)
    \/ CreateSession(w)
    \/ SessionOn(w)
    \/ SendBegin(w)
    \/ SendEnd(w)
    \/ \E e \in Events : EngineEmit(w, e)
    \/ DoneWait(w)
    \/ WaitCancelled(w)
    \/ SessionDestroy(w)
    \/ ClientStop(w)
    \/ CleanupRepo(w)
    \/ Return(w)

Next == \E w \in Workers : Step(w)

Spec == Init /\ [][Next]_vars

(***************************************************************************)
(* The same server serving requests concurrently, as Flask's development   *)
(* server does: every request is for the one repository, and a session     *)
(* gets at most its idle event.                                            *)
(***************************************************************************)
SameRepoLoad == [urls |-> {UrlFull}, events |-> {EvIdle}, maxEvents |-> MaxEventsThreaded]

InitThreaded ==
    /\ InitHost(TRUE, SameRepoLoad)
    /\ program = "advanced_app"
    /\ call = NoCall

SpecThreaded == InitThreaded /\ [][Next]_vars

(***************************************************************************)
(* safe_rmtree and parse_github_url called on their own, on every argument *)
(* of a bounded set.                                                       *)
(***************************************************************************)
\* safe_rmtree(path) with path in state dir, the environment answering the
\* attempts of the first call with outs
SafeRmtreeCalls ==
    {[fn |-> "safe_rmtree", dir |-> d, outs |-> o, returned |-> <<>>] :
        d \in {Absent, Present(0)}, o \in [1..retries -> AttemptOutcomes]}

\* safe_rmtree(path)
CallSafeRmtree ==
    /\ call.fn = "safe_rmtree"
    /\ call.returned = <<>>
    /\ call' = [call EXCEPT !.returned = <<safe_rmtree(call.dir, call.outs)>>]
    /\ UNCHANGED <<program, threaded, load, fs, pc, refVars, repo_path, closureVars, handlers,
                   submitted, exc, resp, eventVars, calls, raised, cloneRun>>

\* safe_rmtree(path) once more, on what the first call left
CallSafeRmtreeAgain ==
    /\ call.fn = "safe_rmtree"
    /\ Len(call.returned) = 1
    /\ \E outs \in [1..retries -> AttemptOutcomes] :
        call' = [call EXCEPT !.returned = Append(@, safe_rmtree(call.returned[1].dir, outs))]
    /\ UNCHANGED <<program, threaded, load, fs, pc, refVars, repo_path, closureVars, handlers,
                   submitted, exc, resp, eventVars, calls, raised, cloneRun>>

HttpsScheme == <<"h", "t", "t", "p", "s", ":", "/", "/">>

OtherHost == <<"g", "i", "t", "l", "a", "b", ".", "c", "o", "m", "/">>

\* the references parse_github_url is called on, by their parts: whitespace
\* around [scheme] [host/] owner sep name [/extra] [.git] [/]
RefParts ==
    {p \in [lead : {<<>>, <<" ">>}, scheme : {<<>>, HttpsScheme},
            host : {<<>>, GithubPrefix, OtherHost}, owner : {<<>>, <<"o">>},
            sep : {<<>>, <<Slash>>}, name : {<<>>, <<"r">>}, extra : {<<>>, <<Slash, "x">>},
            git : BOOLEAN, slash : BOOLEAN, trail : {<<>>, <<"\n">>}] :
        /\ p.scheme # <<>> => p.host # <<>>
        /\ p.name = <<>> => ~p.git
        /\ p.sep = <<>> => (p.host = <<>> /\ p.extra = <<>> /\ ~p.git /\ ~p.slash)}

RefText(p) ==
    p.lead \o p.scheme \o p.host \o p.owner \o p.sep \o p.name \o p.extra
        \o (IF p.git THEN DotGit ELSE <<>>) \o (IF p.slash THEN <<Slash>> ELSE <<>>) \o p.trail

ParseCalls ==
    {[fn |-> "parse_github_url", parts |-> p, url |-> RefText(p), returned |-> <<>>] :
        p \in RefParts}

\* parse_github_url(url)
CallParseGithubUrl ==
    /\ call.fn = "parse_github_url"
    /\ call.returned = <<>>
    /\ call' = [call EXCEPT !.returned = <<parse_github_url(call.url)>>]
    /\ UNCHANGED <<program, threaded, load, fs, pc, refVars, repo_path, closureVars, handlers,
                   submitted, exc, resp, eventVars, calls, raised, cloneRun>>

FnCalls == SafeRmtreeCalls \cup ParseCalls

InitFn ==
    /\ InitHost(FALSE, FullLoad)
    /\ program = "advanced_app"
    /\ call \in FnCalls

NextFn ==
    \/ CallSafeRmtree
    \/ CallSafeRmtreeAgain
    \/ CallParseGithubUrl

SpecFn == InitFn /\ [][NextFn]_vars

(***************************************************************************)
(* Vocabulary of the properties.                                           *)
(***************************************************************************)
Range(seq) == {seq[i] : i \in 1..Len(seq)}

\* position of the first x in seq, 0 when it has none
Pos(seq, x) ==
    IF x \in Range(seq) THEN CHOOSE i \in 1..Len(seq) : seq[i] = x /\ \A j \in 1..(i - 1) : seq[j] # x
    ELSE 0

\* the last n elements of seq
Suffix(seq, n) == IF Len(seq) < n THEN seq ELSE SubSeq(seq, Len(seq) - n + 1, Len(seq))

Ended(w) == pc[w] = "responded"

\* create_session was called and returned
SessionCreated(w) ==
    /\ "client.create_session" \in Range(calls[w])
    /\ "client.create_session" \notin Range(raised[w])

IdleReceived(w) == \E i \in 1..Len(received[w]) : received[w][i].type = "session.idle"

SdkCalls ==
    {"client.start", "client.create_session", "session.send", "done.wait",
     "session.destroy", "client.stop"}

\* the failure class of the request of w, "none" when it has not failed
Failure(w) ==
    IF repo_url[w] = <<>> THEN "missing_url"
    ELSE IF resp[w] = MessageResponse(InvalidUrlMessage) THEN "input"
    ELSE IF "clone_repo" \in Range(raised[w]) THEN "acquisition"
    ELSE IF Range(raised[w]) \cap SdkCalls # {} THEN "engine"
    ELSE "none"

\* the events that add a record to events_log, and the record of each
Loggable(e) ==
    \/ e.type \in {"tool.execution_start", "tool.execution_complete"}
    \/ e.type = "assistant.message_delta" /\ e.content # ""

RecordOf(e) ==
    CASE e.type = "assistant.message_delta" ->
             LogRecord("message_delta", e.content, None, None, None)
      [] e.type = "tool.execution_start" ->
             LogRecord("tool_start", None, e.tool_name, e.tool_call_id, None)
      [] e.type = "tool.execution_complete" ->
             LogRecord("tool_complete", None, None, e.tool_call_id, e.result)

LogOf(seq) ==
    LET kept == SelectSeq(seq, Loggable)
    IN  [i \in 1..Len(kept) |-> RecordOf(kept[i])]

Teardown == <<"session.destroy", "client.stop", "cleanup_repo">>

\* the final-message fragments among the events seq, in order of receipt
IsFinalMessage(e) == e.type = "assistant.message"

Fragments(seq) ==
    LET kept == SelectSeq(seq, IsFinalMessage)
    IN  [i \in 1..Len(kept) |-> kept[i].content]

RECURSIVE Lines(_, _)
\* the first n of frags, one to a line
Lines(frags, n) ==
    IF n = 0 THEN ""
    ELSE IF n = 1 THEN frags[1]
    ELSE Lines(frags, n - 1) \o "\n" \o frags[n]

\* the parse_github_url call under test has returned
Parsed == call.fn = "parse_github_url" /\ call.returned # <<>>

\* a reference with an owner and a name and nothing after the name
OwnerAndName(p) == p.sep # <<>> /\ p.owner # <<>> /\ p.name # <<>> /\ p.extra = <<>>

Ref(o, r) == [owner |-> o, repo |-> r]

\* the pair (None, None)
NotFound(ref) == ref.owner = None /\ ref.repo = None

\* two results of parse_github_url are the same pair
SameRef(a, b) ==
    IF NotFound(a) \/ NotFound(b) THEN NotFound(a) /\ NotFound(b)
    ELSE a = b

\* the run of w has acquired a workspace and its session is not torn down yet
Holding(w) ==
    /\ repo_path[w] # None
    /\ pc[w] \in {"start", "create", "on", "send", "sending", "wait", "destroy"}

\* the log of w holds, in order, one record for each loggable event received
LoggedInOrder(w) ==
    /\ Len(events_log[w]) = Cardinality({i \in 1..Len(received[w]) : Loggable(received[w][i])})
    /\ \A k \in 1..Len(events_log[w]) :
          \E i \in 1..Len(received[w]) :
              /\ Loggable(received[w][i])
              /\ Cardinality({j \in 1..i : Loggable(received[w][j])}) = k
              /\ events_log[w][k] = RecordOf(received[w][i])

\* session.send was called and returned, and the wait for the completion
\* signal was not cancelled
SendReturned(w) ==
    /\ "session.send" \in Range(calls[w])
    /\ "session.send" \notin Range(raised[w])
    /\ pc[w] # "sending"
    /\ "done.wait" \notin Range(raised[w])

\* a is an initial piece of b
IsPrefix(a, b) == Len(a) <= Len(b) /\ SubSeq(b, 1, Len(a)) = a

\* how often op occurs in a trace of operations
Count(trace, op) == Cardinality({i \in 1..Len(trace) : trace[i] = op})

\* the safe_rmtree call under test has returned n times or more
Returned(n) == call.fn = "safe_rmtree" /\ Len(call.returned) >= n

\* what the environment lets a removal attempt do: gc does not raise and
\* rmtree removes the tree
AttemptSucceeds(o) == o.gc \in {"ok", "nonzero"} /\ o.rm = "removed"

(***************************************************************************)
(* C1.  advanced_app: once the session is created, every way out of send   *)
(* and the wait for completion runs session.destroy, then client.stop,     *)
(* then cleanup_repo, before the function returns or raises.               *)
(***************************************************************************)
C1_TeardownThenCleanupOnEveryExit ==
    \A w \in Workers :
        (program = "advanced_app" /\ Ended(w) /\ SessionCreated(w))
            => Suffix(calls[w], 3) = Teardown

(***************************************************************************)
(* C2.  advanced_app: a workspace never outlives its run: when a run in    *)
(* which clone_repo returned a path has ended, that directory is gone.     *)
(***************************************************************************)
C2_WorkspaceGoneWhenRunEnds ==
    \A w \in Workers :
        (program = "advanced_app" /\ Ended(w) /\ repo_path[w] # None)
            => ~fs[repo_path[w]].exists

(***************************************************************************)
(* C3.  app: after the session is created, session.destroy and then        *)
(* client.stop run on every way out, also when send or the wait raises.    *)
(***************************************************************************)
C3_RemoteTeardownOnEveryExit ==
    \A w \in Workers :
        (program = "app" /\ Ended(w) /\ SessionCreated(w))
            => /\ Pos(calls[w], "session.destroy") > 0
               /\ Pos(calls[w], "client.stop") > Pos(calls[w], "session.destroy")

(***************************************************************************)
(* C4.  Either program: a result that carries owner and repo (the payload  *)
(* of a session) is returned only when the completion signal is set, an    *)
(* idle event having reached the handler.                                  *)
(***************************************************************************)
C4_ResultOnlyAfterIdle ==
    \A w \in Workers :
        (Ended(w) /\ ("owner" \in resp[w].keys \/ (resp[w].status = 200 /\ SessionCreated(w))))
            => /\ done[w]
               /\ IdleReceived(w)
               /\ resp[w].events = events_log[w]

C4_Witness ==
    \E w \in Workers :
        /\ Ended(w)
        /\ "owner" \in resp[w].keys
        /\ resp[w].events # <<>>
        /\ done[w]

(***************************************************************************)
(* C5.  Either program: session.on(handle_event) comes before              *)
(* session.send, so the handler is registered whenever the instruction is  *)
(* out and the session lives, and no event is delivered to no handler.     *)
(***************************************************************************)
C5_HandlerBeforeSend ==
    \A w \in Workers :
        /\ lost[w] = 0
        /\ submitted[w] =>
              /\ Pos(calls[w], "session.on") > 0
              /\ Pos(calls[w], "session.on") < Pos(calls[w], "session.send")
        /\ (submitted[w] /\ pc[w] \in {"sending", "wait", "destroy"}) => handlers[w]

C5_Witness ==
    \E w \in Workers :
        /\ pc[w] = "sending"
        /\ Len(received[w]) > 0

(***************************************************************************)
(* C6.  As claimed: the completion signal is set from the first idle event *)
(* on and never reset, however many idle events arrive, and the event log  *)
(* records every received event.                                           *)
(***************************************************************************)
C6_LatchAndLogOfEveryEvent ==
    \A w \in Workers :
        /\ done[w] <=> IdleReceived(w)
        /\ Len(events_log[w]) = Len(received[w])

(***************************************************************************)
(* C6, amended.  The completion signal is set from the first idle event on *)
(* and never reset, however many idle events arrive, and the event log     *)
(* records, in order, every received non-empty delta, tool start and tool  *)
(* completion, those after an idle event too (final messages, empty deltas *)
(* and idle events add no record).                                         *)
(***************************************************************************)
C6_LatchAndLogOfClassifiedEvents ==
    \A w \in Workers :
        /\ done[w] <=> IdleReceived(w)
        /\ events_log[w] = LogOf(received[w])

C6_Witness ==
    \E w \in Workers :
        \E i, j, k \in 1..Len(received[w]) :
            /\ i < j
            /\ i < k
            /\ received[w][i].type = "session.idle"
            /\ received[w][j].type = "session.idle"
            /\ Loggable(received[w][k])
            /\ done[w]
            /\ Len(events_log[w]) > 0

(***************************************************************************)
(* C7.  A workspace is created fresh: when clone_repo finds its target     *)
(* path present, the directory is destroyed before the clone runs, and     *)
(* clone_repo never returns a directory left over from an earlier run.     *)
(***************************************************************************)
C7_WorkspaceCreatedFresh ==
    \A w \in Workers :
        (cloneRun[w].ran /\ ~cloneRun[w].out.raised)
            => /\ cloneRun[w].out.removal.ran => cloneRun[w].out.removal.ok
               /\ fs[repo_path[w]] = Present(w)

(***************************************************************************)
(* C8.  clone_repo called again for the same repository never fails on the *)
(* directory the earlier call made: the pre-clone removal clears it, so    *)
(* the clone command is not refused for an existing destination.           *)
(***************************************************************************)
C8_SecondCloneClearsFirst ==
    \A w \in Workers :
        (cloneRun[w].ran /\ cloneRun[w].out.removal.ran)
            => /\ cloneRun[w].out.result.stderr # StderrExists
               /\ cloneRun[w].out.result.returncode = 0 => fs[Truncate(repo[w])] = Present(w)

C10_FailuresAnswerWithError ==
    \A w \in Workers :
        (Ended(w) /\ Failure(w) # "none")
            => /\ resp[w].kind = "json"
               /\ "error" \in resp[w].keys
               /\ resp[w].status = (IF Failure(w) = "missing_url" THEN 400 ELSE 500)

(***************************************************************************)
(* C11.  Either program: for a reference parse_github_url yields no owner  *)
(* and name for, analyze_github_repo returns the fixed invalid-URL message *)
(* with an empty event log and does nothing else: no clone_repo, no        *)
(* workspace made, no client started, no session created.                  *)
(***************************************************************************)
C11_UnparsableReferenceHasNoEffect ==
    \A w \in Workers :
        (pc[w] \notin {"idle", "parse"} /\ repo_url[w] # <<>>
            /\ parse_github_url(repo_url[w]) = NoMatch)
            => /\ Ended(w)
               /\ resp[w] = MessageResponse(InvalidUrlMessage)
               /\ resp[w].events = <<>>
               /\ calls[w] = <<>>
               /\ repo_path[w] = None
               /\ ~cloneRun[w].ran
               /\ ~handlers[w]
               /\ ~submitted[w]
               /\ \A p \in Paths : ~(fs[p].exists /\ fs[p].owner = w)

C11_Witness ==
    \E w \in Workers :
        /\ Ended(w)
        /\ repo_url[w] = UrlBlank
        /\ owner[w] = None
        /\ resp[w] = MessageResponse(InvalidUrlMessage)

(***************************************************************************)
(* C12.  safe_rmtree makes at most 3 removal attempts and stops at the     *)
(* first that succeeds; it sleeps once between two consecutive attempts    *)
(* and not after the last; when every attempt fails it returns False and   *)
(* raises nothing, the directory left as it was.                           *)
(***************************************************************************)
C12_BoundedRetryNeverRaises ==
    Returned(1) =>
        LET r     == call.returned[1]
            wins  == {i \in 1..retries : ~call.dir.exists \/ AttemptSucceeds(call.outs[i])}
            slept == {i \in 1..Len(r.trace) : r.trace[i] = "sleep"}
            began == {i \in 1..Len(r.trace) : r.trace[i] = "exists"}
        IN  /\ ~r.raised
            /\ r.attempts <= retries
            /\ Cardinality(began) = r.attempts
            /\ r.ok <=> wins # {}
            /\ r.ok => /\ r.attempts \in wins
                       /\ \A i \in wins : r.attempts <= i
                       /\ ~r.dir.exists
            /\ ~r.ok => /\ r.attempts = retries
                        /\ r.dir = call.dir
            /\ Cardinality(slept) = r.attempts - 1
            /\ \A i \in slept : i < Len(r.trace) /\ r.trace[i + 1] = "exists"
            /\ \A i \in began : i > 1 => r.trace[i - 1] = "sleep"

\* every attempt failed
C12_Witness ==
    /\ Returned(1)
    /\ ~call.returned[1].ok
    /\ call.returned[1].attempts = retries
    /\ Count(call.returned[1].trace, "sleep") = retries - 1
    /\ call.returned[1].dir.exists

(***************************************************************************)
(* C13.  safe_rmtree on a path that does not exist returns True on the     *)
(* first attempt and runs neither git gc nor rmtree nor sleep; called      *)
(* twice in a row on such a path it returns True both times, and the       *)
(* second call leaves the filesystem as it found it.                       *)
(***************************************************************************)
C13_NoOpOnMissingPath ==
    /\ (Returned(1) /\ ~call.dir.exists)
          => call.returned[1] = Removal(TRUE, call.dir, 1, <<"exists">>)
    /\ (Returned(2) /\ ~call.returned[1].dir.exists)
          => /\ call.returned[2] = Removal(TRUE, call.returned[1].dir, 1, <<"exists">>)
             /\ call.returned[1].ok

C13_Witness ==
    /\ Returned(2)
    /\ ~call.dir.exists
    /\ call.returned[1].ok
    /\ call.returned[2].ok

(***************************************************************************)
(* C14.  In every removal attempt of safe_rmtree on an existing path, a    *)
(* failure of git gc (non-zero exit, timeout, executable not launched)     *)
(* does not keep shutil.rmtree from being tried in that same attempt:      *)
(* every gc is followed by the rmtree of its attempt.                      *)
(***************************************************************************)
C14_GcFailureDoesNotSkipRemoval ==
    (Returned(1) /\ call.dir.exists) =>
        LET trace == call.returned[1].trace
        IN  \A i \in 1..Len(trace) :
                trace[i] = "gc" => (i < Len(trace) /\ trace[i + 1] = "rmtree")

(***************************************************************************)
(* C15.  A git process that never answers cannot hold clone_repo or        *)
(* safe_rmtree for ever: a thread waiting in one of their subprocess calls *)
(* can always take a further step, the call's timeout expiring.            *)
(***************************************************************************)
C15_SubprocessCallsAreBounded ==
    \A w \in Workers : pc[w] = "blocked" => ENABLED Step(w)

(***************************************************************************)
(* C16.  One run of analyze_github_repo calls clone_repo at most once      *)
(* (app never); a clone_repo call runs the clone command exactly once,     *)
(* first, and the restore command at most once.                            *)
(***************************************************************************)
C16_OneCloneOneRestoreAtMost ==
    \A w \in Workers :
        /\ Count(calls[w], "clone_repo") <= (IF program = "advanced_app" THEN 1 ELSE 0)
        /\ cloneRun[w].ran =>
              LET cmds == cloneRun[w].out.commands
              IN  /\ Count(cmds, "git clone") = 1
                  /\ cmds[1] = "git clone"
                  /\ Count(cmds, "git restore") <= 1
                  /\ Count(calls[w], "clone_repo") = 1

C16_Witness ==
    \E w \in Workers :
        /\ cloneRun[w].ran
        /\ cloneRun[w].out.commands = <<"git clone", "git restore">>
        /\ calls[w] = <<"clone_repo">>
        /\ repo_path[w] # None

(***************************************************************************)
(* C17.  Either program: the result of a completed run has the keys        *)
(* response, events, owner and repo; its response is the final-message     *)
(* fragments in order of receipt joined by newlines, and is the fixed      *)
(* placeholder exactly when no fragment was received; its events are the   *)
(* event log, its owner and repo the parsed reference.                     *)
(***************************************************************************)
C17_ResultAssembledFromFragments ==
    \A w \in Workers :
        (Ended(w) /\ "owner" \in resp[w].keys) =>
            LET frags == Fragments(received[w])
                ref   == parse_github_url(repo_url[w])
            IN  /\ resp[w].keys = {"response", "events", "owner", "repo"}
                /\ frags # <<>> => resp[w].response = Lines(frags, Len(frags))
                /\ resp[w].response = NoResponseText <=> frags = <<>>
                /\ resp[w].events = events_log[w]
                /\ resp[w].events = LogOf(received[w])
                /\ resp[w].owner = ref.owner
                /\ resp[w].repo = ref.repo
                /\ ref # NoMatch

\* two fragments, joined in the order they came in
C17_Witness ==
    \E w \in Workers :
        /\ Ended(w)
        /\ "owner" \in resp[w].keys
        /\ Fragments(received[w]) = <<"beta", "alpha">>
        /\ resp[w].response = "beta\nalpha"

(***************************************************************************)
(* C18.  As claimed: parse_github_url, having trimmed whitespace, returns  *)
(* the exact owner and name of every reference of the form                 *)
(* github.com/owner/name or owner/name, a .git suffix and a trailing slash *)
(* allowed and left out of the name on either form, and (None, None) for   *)
(* every other string.                                                     *)
(***************************************************************************)
C18_ParsesBothFormsWithSuffixAndSlash ==
    Parsed =>
        LET p == call.parts
        IN  SameRef(call.returned[1],
                    IF OwnerAndName(p) /\ p.host \in {<<>>, GithubPrefix}
                    THEN Ref(p.owner, p.name)
                    ELSE NoMatch)

(***************************************************************************)
(* C18, amended.  parse_github_url, having trimmed whitespace, returns the *)
(* exact owner and name of every reference ending in                       *)
(* github.com/owner/name, a .git suffix and a trailing slash allowed and   *)
(* left out of the name; of a bare owner/name it returns the owner and the *)
(* name as written, a .git suffix kept as part of the name, and a bare     *)
(* owner/name with a trailing slash is not matched; every other string     *)
(* yields (None, None).                                                    *)
(***************************************************************************)
C18_ParsesFullFormAndBareShorthand ==
    Parsed =>
        LET p == call.parts
        IN  SameRef(call.returned[1],
                    IF ~OwnerAndName(p) THEN NoMatch
                    ELSE IF p.host = GithubPrefix THEN Ref(p.owner, p.name)
                    ELSE IF p.host = <<>> /\ ~p.slash
                    THEN Ref(p.owner, p.name \o (IF p.git THEN DotGit ELSE <<>>))
                    ELSE NoMatch)

\* " https://github.com/o/r.git/" with whitespace around it
C18_Witness ==
    /\ Parsed
    /\ call.parts.lead # <<>>
    /\ call.parts.trail # <<>>
    /\ call.parts.scheme = HttpsScheme
    /\ call.parts.host = GithubPrefix
    /\ call.parts.git
    /\ call.parts.slash
    /\ SameRef(call.returned[1], Ref(<<"o">>, <<"r">>))

(***************************************************************************)
(* C19.  Requests served concurrently: while a run holds its workspace     *)
(* (clone_repo has returned it, the session is not torn down yet), no step *)
(* of another run deletes or replaces that directory.                      *)
(***************************************************************************)
C19_WorkspaceOwnedByOneRun ==
    [][\A w \in Workers :
          (Holding(w) /\ pc'[w] = pc[w])
              => /\ fs'[repo_path[w]].exists
                 /\ fs'[repo_path[w]].owner \in {fs[repo_path[w]].owner, 0}]_vars

(***************************************************************************)
(* C20.  Either program: at every point of a run the event log is, in      *)
(* order of receipt, the records of exactly the non-empty deltas, tool     *)
(* starts and tool completions received so far (empty deltas, final        *)
(* messages and idle events add none), events after an idle event          *)
(* included: every step leaves the log so, and a step of a run only ever   *)
(* appends to it, so no record is removed or moved.                        *)
(***************************************************************************)
C20_EventLogOrderPreserving ==
    [][\A w \in Workers :
          /\ LoggedInOrder(w)'
          /\ ~Free(w) => IsPrefix(events_log[w], events_log'[w])]_vars

\* a record, the idle event, and a record after it
C20_Witness ==
    \E w \in Workers :
        /\ Len(received[w]) = 3
        /\ Loggable(received[w][1])
        /\ received[w][2].type = "session.idle"
        /\ Loggable(received[w][3])
        /\ received[w][1] # received[w][3]
        /\ events_log[w] = <<RecordOf(received[w][1]), RecordOf(received[w][3])>>

(***************************************************************************)
(* C21.  Either program: no wakeup is lost.  A run whose handler received  *)
(* an idle event (before the wait began or during it) and whose send       *)
(* returned ends in one way only: the wait resolved, session.destroy and   *)
(* client.stop ran (and then cleanup_repo in advanced_app), and the result *)
(* was returned.  A run that received no idle event returns no result.     *)
(***************************************************************************)
C21_IdleReceivedRunReturnsResult ==
    \A w \in Workers :
        /\ (Ended(w) /\ IdleReceived(w) /\ SendReturned(w))
              => /\ "owner" \in resp[w].keys
                 /\ resp[w].status = 200
                 /\ IF program = "advanced_app"
                    THEN Suffix(calls[w], 3) = Teardown
                    ELSE Suffix(calls[w], 2) = <<"session.destroy", "client.stop">>
        /\ (Ended(w) /\ SessionCreated(w) /\ ~IdleReceived(w))
              => "owner" \notin resp[w].keys

====
